---- MODULE Spec2Model ----
(***************************************************************************)
(* Car-Hire agent SDK (sdks/python-agent/carhire): the availability search *)
(* generator AvailabilityClient.search, the DTOs it consumes and produces  *)
(* (AvailabilityCriteria, AvailabilityChunk), and the timing contract of   *)
(* the REST transport it drives.                                           *)
(*                                                                         *)
(* Time is counted in ticks, TicksPerMs ticks to the millisecond, so that  *)
(* the float millisecond clock of the code (time.time() * 1000) has a      *)
(* fractional part and int(remaining) truncates.                           *)
(***************************************************************************)
EXTENDS Integers, Sequences, FiniteSets, TLC

VARIABLES
    now,        \* the clock read by time.time(), in ticks
    ticked,     \* the clock has advanced since the last step of a search
    config,     \* the Config of the client: Config.grpc and Config.data
    session,    \* search id -> the frame of that search() generator
    transport,  \* the transport of the client: its connection, the close calls
    booking     \* the booking operation of the client and its transport calls

vars == <<now, ticked, config, session, transport, booking>>

\* ------------------------------------------------------------------ bounds
MaxPolls == 3
TicksPerMs == 2
ConcPolls == 2
LivePolls == 5

\* --------------------------------------------------------- program constants
MsPerSecond == 1000
DefaultCallTimeoutMs == 10000
DefaultAvailabilitySlaMs == 120000
DefaultLongPollWaitMs == 10000
MinTimeoutMs == 1000
TimeoutSlackS == 2
MinDriverAge == 18
MaxDriverAge == 100

Max(a, b) == IF a >= b THEN a ELSE b
Min(a, b) == IF a <= b THEN a ELSE b

\* ------------------------------------------------------------- JSON values
\* A key of a decoded response: missing, null, or a value.  The value field
\* keeps one type per key so that two values of a key can be compared.
Missing(v) == [t |-> "missing", v |-> v]
Null(v) == [t |-> "null", v |-> v]
JInt(n) == [t |-> "int", v |-> n]
\* a JSON string holding the decimal digits of n
JNumStr(n) == [t |-> "str", v |-> n]
JStr(s) == [t |-> "str", v |-> s]
JList(l) == [t |-> "list", v |-> l]

\* dict.get(key): None for a missing key and for a null
IsNone(j) == j.t \in {"missing", "null"}
\* dict.get(key, default): the default for a missing key only
GetOr(j, default) == IF j.t = "missing" THEN default ELSE j
\* Python truthiness of a decoded string or list value
Truthy(j) ==
    /\ ~IsNone(j)
    /\ j.t = "str" => j.v # ""
    /\ j.t = "list" => j.v # <<>>

\* ---------------------------------------------------------------- Config
\* The dict handed to Config: a string key is "" when absent, a timing key
\* is <<>> when absent and <<ms>> when given
RestData ==
    [ baseUrl |-> "http://localhost:8080", token |-> "Bearer t", host |-> "",
      caCert |-> "", clientCert |-> "", clientKey |-> "", correlationId |-> "",
      callTimeoutMs |-> <<>>, availabilitySlaMs |-> <<>>, longPollWaitMs |-> <<>> ]

GrpcData ==
    [ RestData EXCEPT !.baseUrl = "", !.token = "", !.host = "h:443",
                      !.caCert = "ca", !.clientCert = "cert", !.clientKey = "key" ]

\* str(x).strip() of the strings above is empty only for "" and " "
Blank(x) == x \in {"", " "}

\* Config.__init__: the defaults, updated with data
Config(how, grpc, data) ==
    [ how               |-> how,    \* the call that built the object
      grpc              |-> grpc,
      baseUrl           |-> data.baseUrl,
      token             |-> data.token,
      host              |-> data.host,
      caCert            |-> data.caCert,
      clientCert        |-> data.clientCert,
      clientKey         |-> data.clientKey,
      callTimeoutMs     |-> IF data.callTimeoutMs = <<>> THEN DefaultCallTimeoutMs
                            ELSE data.callTimeoutMs[1],
      availabilitySlaMs |-> IF data.availabilitySlaMs = <<>> THEN DefaultAvailabilitySlaMs
                            ELSE data.availabilitySlaMs[1],
      longPollWaitMs    |-> IF data.longPollWaitMs = <<>> THEN DefaultLongPollWaitMs
                            ELSE data.longPollWaitMs[1],
      correlationId     |-> IF data.correlationId = "" THEN "python-sdk-token_hex"
                            ELSE data.correlationId ]

\* Config.for_rest: the checks that raise ValueError
ForRestAccepts(data) ==
    /\ ~Blank(data.baseUrl)
    /\ ~Blank(data.token)
    /\ data.callTimeoutMs # <<>> => data.callTimeoutMs[1] >= MinTimeoutMs
    /\ data.availabilitySlaMs # <<>> => data.availabilitySlaMs[1] >= MinTimeoutMs
    /\ data.longPollWaitMs # <<>> => data.longPollWaitMs[1] >= MinTimeoutMs

\* Config.for_grpc: the checks that raise ValueError
ForGrpcAccepts(data) ==
    /\ ~Blank(data.host)
    /\ ~Blank(data.caCert)
    /\ ~Blank(data.clientCert)
    /\ ~Blank(data.clientKey)

\* Config.with_correlation_id: a new Config from a copy of the data
WithCorrelationId(c, correlation_id) ==
    [c EXCEPT !.how = "with_correlation_id", !.correlationId = correlation_id]

\* The configurations the searches run under, built by Config.for_rest
Configs ==
    { Config("for_rest", FALSE,
             [RestData EXCEPT !.callTimeoutMs = <<1000>>, !.availabilitySlaMs = <<1000>>,
                              !.longPollWaitMs = <<1000>>]),
      Config("for_rest", FALSE,
             [RestData EXCEPT !.callTimeoutMs = <<1000>>, !.availabilitySlaMs = <<3000>>,
                              !.longPollWaitMs = <<2000>>]) }

\* --------------------------------------------------------- AvailabilityChunk
\* AvailabilityChunk.from_dict
from_dict(data) ==
    [ items  |-> GetOr(data.items, JList(<<>>)),
      status |-> GetOr(data.status, JStr("PARTIAL")),
      cursor |-> IF ~IsNone(data.cursor) THEN JInt(data.cursor.v) ELSE Null(0),
      raw    |-> data ]

\* ------------------------------------------------------ AvailabilityCriteria
NoExtras == [has |-> FALSE, agreement_refs |-> JList(<<>>)]
ExtrasRefs(j) == [has |-> TRUE, agreement_refs |-> j]

\* datetime.isoformat(): the text of an instant
isoformat(t) == [iso |-> t]

\* AvailabilityCriteria.to_dict: the nine payload keys, then extras merged on top
to_dict(c) ==
    [ pickup_unlocode   |-> c.pickup_locode,
      dropoff_unlocode  |-> c.return_locode,
      pickup_iso        |-> isoformat(c.pickup_at),
      dropoff_iso       |-> isoformat(c.return_at),
      driver_age        |-> c.driver_age,
      residency_country |-> c.residency_country,
      vehicle_classes   |-> c.vehicle_prefs,
      agreement_refs    |-> IF c.extras.has THEN c.extras.agreement_refs
                            ELSE JList(c.agreement_refs),
      rate_prefs        |-> c.rate_prefs ]

\* Variant: only a missing or null agreement_refs is refused
PayloadRejected_NoneOnly(payload) == IsNone(payload.agreement_refs)

\* search(): `if not payload.get("agreement_refs")`
PayloadRejected(payload) == ~Truthy(payload.agreement_refs)

\* Table of the str methods on the strings the model draws locodes, currency
\* and country from: str.strip, str.upper, len
strip(s) == CASE s = " " -> "" [] s = " pkkhi " -> "pkkhi" [] OTHER -> s
upper(s) == CASE s = "pkkhi" -> "PKKHI" [] s = "usd" -> "USD" [] OTHER -> s
len(s) == CASE s = "" -> 0 [] s = " " -> 1 [] s = "US" -> 2
             [] s \in {"USA", "usd", "USD"} -> 3 [] s = " pkkhi " -> 7 [] OTHER -> 5

\* AvailabilityCriteria.__init__: stores its arguments, validates nothing
Criteria(a) ==
    [ pickup_locode     |-> a.pickup_locode,
      return_locode     |-> a.return_locode,
      pickup_at         |-> a.pickup_at,
      return_at         |-> a.return_at,
      driver_age        |-> a.driver_age,
      currency          |-> a.currency,
      agreement_refs    |-> a.agreement_refs,
      vehicle_prefs     |-> a.vehicle_prefs,
      rate_prefs        |-> a.rate_prefs,
      residency_country |-> a.residency_country,
      extras            |-> a.extras ]

\* AvailabilityCriteria.make: the checks that raise ValueError (the arguments
\* are of their declared types, so the isinstance tests pass)
MakeAccepts(a) ==
    /\ a.pickup_locode # "" /\ strip(a.pickup_locode) # ""
    /\ a.return_locode # "" /\ strip(a.return_locode) # ""
    /\ a.return_at > a.pickup_at
    /\ a.driver_age # 0 /\ a.driver_age >= MinDriverAge /\ a.driver_age <= MaxDriverAge
    /\ a.currency # "" /\ strip(a.currency) # ""
    /\ a.agreement_refs # <<>>
    /\ a.residency_country # "" => len(a.residency_country) = 2

\* AvailabilityCriteria.make: the object it returns once the checks pass
MakeResult(a) ==
    Criteria([a EXCEPT !.pickup_locode = upper(strip(a.pickup_locode)),
                       !.return_locode = upper(strip(a.return_locode)),
                       !.currency = upper(strip(a.currency))])

\* The arguments the model draws for make() and the constructor
BaseArgs ==
    [ pickup_locode |-> "PKKHI", return_locode |-> "PKLHE", pickup_at |-> 1,
      return_at |-> 2, driver_age |-> 28, currency |-> "USD",
      agreement_refs |-> <<"AGR-001">>, vehicle_prefs |-> <<>>, rate_prefs |-> <<>>,
      residency_country |-> "US", extras |-> NoExtras ]

ExtrasChoices ==
    { NoExtras, ExtrasRefs(JList(<<>>)), ExtrasRefs(JList(<<"AGR-X">>)),
      ExtrasRefs(Null(<<>>)) }

CriteriaArgs ==
    { [BaseArgs EXCEPT !.return_at = r, !.driver_age = d, !.agreement_refs = g,
                       !.extras = e] :
        r \in {0, 1, 2}, d \in {0, 17, 18, 100, 101},
        g \in {<<>>, <<"AGR-001">>}, e \in ExtrasChoices }
    \cup { [BaseArgs EXCEPT !.pickup_locode = l] : l \in {"", " ", " pkkhi "} }
    \cup { [BaseArgs EXCEPT !.currency = c] : c \in {"", " ", "usd"} }
    \cup { [BaseArgs EXCEPT !.residency_country = c] : c \in {"", "USA"} }

\* The criteria the searches of Spec are started with
SearchCriteria ==
    { MakeResult(BaseArgs), Criteria([BaseArgs EXCEPT !.agreement_refs = <<>>]) }

\* ------------------------------------------------------------ the transport
SubmitResponses ==
    { [request_id |-> JStr("r1")], [request_id |-> JStr("")],
      [request_id |-> Missing("")], [request_id |-> Null("")] }

PollResponses ==
    { [items |-> JList(<<"o1">>), status |-> JStr("PARTIAL"), cursor |-> JInt(5)],
      [items |-> JList(<<"o2", "o3">>), status |-> JStr("COMPLETE"), cursor |-> JInt(9)],
      [items |-> Missing(<<>>), status |-> Missing(""), cursor |-> Missing(0)],
      [items |-> JList(<<>>), status |-> JStr("EXPIRED"), cursor |-> JNumStr(3)] }

\* RestTransport.availability_submit: the timeout of the request, in ms
SubmitTimeoutMs(c) == c.callTimeoutMs + TimeoutSlackS * MsPerSecond

\* RestTransport.availability_poll: the timeout of the request, in ms
PollTimeoutMs(c, wait_ms) ==
    Max(wait_ms + TimeoutSlackS * MsPerSecond,
        c.callTimeoutMs + TimeoutSlackS * MsPerSecond)

\* ------------------------------------------------------- the search generator
\* The frame of one search() call and what its consumer and the transport
\* have seen of it.  pc is the point the generator is suspended at:
\*   nocriteria  no criteria object exists yet
\*   created     search(criteria) was called, the generator has not run
\*   submit      awaiting availability_submit
\*   poll        awaiting availability_poll
\*   yield       suspended at `yield chunk`
\*   returned    the generator ended normally
\*   raised      the generator ended with the exception err
\*   closed      the consumer closed the generator at the yield
NewSession(made, crit) ==
    [ pc         |-> IF crit = <<>> THEN "nocriteria" ELSE "created",
      made       |-> made,      \* how the criteria came to be
      crit       |-> crit,      \* the criteria argument
      err        |-> "none",    \* the exception the caller got
      failed     |-> FALSE,     \* the transport raised
      submitted  |-> <<>>,      \* the payload handed to availability_submit
      submitResp |-> <<>>,      \* what availability_submit returned
      submitRetAt |-> 0,        \* when it returned
      request_id |-> "",
      since      |-> 0,
      deadline   |-> 0,
      cap        |-> MaxPolls,  \* polls the model follows this search for
      abandoned  |-> FALSE,     \* the consumer closed or cancelled the generator
      chunk      |-> <<>>,      \* the chunk being yielded
      inflight   |-> <<>>,      \* transport calls issued and not yet ended
      pollLog    |-> <<>>,      \* since_seq of every poll issued
      received   |-> <<>>,      \* responses of the polls that returned
      recvAt     |-> 0,         \* when the last of them returned
      emitted    |-> <<>> ]     \* chunks the consumer got

SubmitCall(t) == [op |-> "submit", request_id |-> "", since |-> 0, wait |-> 0, at |-> t]
PollCall(request_id, since, wait, t) ==
    [op |-> "poll", request_id |-> request_id, since |-> since, wait |-> wait, at |-> t]

\* Variant: the clock is not subtracted from the deadline
Remaining_NoClock(deadline, t) == Max(0, deadline)

\* remaining = max(0, deadline - now), in ticks
Remaining(deadline, t) == Max(0, deadline - t)

\* Variant: the remaining time rounded up to whole milliseconds
IntMs_Ceil(remaining) == (remaining + TicksPerMs - 1) \div TicksPerMs

\* int(remaining): the whole milliseconds of a remaining time
IntMs(remaining) == remaining \div TicksPerMs

\* Variant: the configured wait, whatever time remains
Wait_NoCap(c, remaining) == c.longPollWaitMs

\* wait = min(longPollWaitMs, int(remaining))
Wait(c, remaining) == Min(c.longPollWaitMs, IntMs(remaining))

\* deadline = now + availabilitySlaMs
Deadline(c, t) == t + c.availabilitySlaMs * TicksPerMs

\* Variant: a chunk without a cursor sends the search back to the start
NextSince_Reset(chunk, since) == IF ~IsNone(chunk.cursor) THEN chunk.cursor.v ELSE 0

\* since = chunk.cursor if chunk.cursor is not None else since
NextSince(chunk, since) == IF ~IsNone(chunk.cursor) THEN chunk.cursor.v ELSE since

\* Variant: the terminal status is never recognised
IsComplete_Never(chunk) == FALSE

\* chunk.status == "COMPLETE"
IsComplete(chunk) == chunk.status = JStr("COMPLETE")

\* Variant: a chunk without items is not passed on
Emit_SkipEmpty(emitted, chunk) ==
    IF chunk.items.v = <<>> THEN emitted ELSE Append(emitted, chunk)

\* Variant: only a missing or null request_id ends the search
NoRequestId_NoneOnly(request_id) == IsNone(request_id)

\* `if not request_id`
NoRequestId(request_id) == ~Truthy(request_id)

\* yield chunk: the consumer receives it
Emit(emitted, chunk) == Append(emitted, chunk)

\* Variant: the failed call is issued again from the last cursor
OnTransportError_Retry(f) ==
    [f EXCEPT !.inflight = Append(@, [op |-> f.pc, request_id |-> f.request_id,
                                      since |-> f.since, wait |-> 0, at |-> f.recvAt])]

\* An exception of the transport leaves the generator: there is no try block
OnTransportError(f) ==
    [f EXCEPT !.pc = "raised", !.err = "TransportException"]

\* Variant: every iteration starts a new availabilitySlaMs window
LoopHead_Recompute(f, c, t) ==
    [f EXCEPT !.pc = "poll",
              !.deadline = Deadline(c, t),
              !.inflight = Append(@, PollCall(f.request_id, f.since,
                                              Wait(c, Remaining(Deadline(c, t), t)), t)),
              !.pollLog = Append(@, f.since)]

\* Variant: reaching the deadline raises instead of ending the sequence
LoopHead_Raise(f, c, t) ==
    IF Remaining(f.deadline, t) <= 0
    THEN [f EXCEPT !.pc = "raised", !.err = "TimeoutError"]
    ELSE [f EXCEPT !.pc = "poll",
                   !.inflight = Append(@, PollCall(f.request_id, f.since,
                                           Wait(c, Remaining(f.deadline, t)), t)),
                   !.pollLog = Append(@, f.since)]

\* The head of the while loop: leave it at the deadline, else issue a poll
LoopHead(f, c, t) ==
    LET remaining == Remaining(f.deadline, t) IN
    IF remaining <= 0
    THEN [f EXCEPT !.pc = "returned"]
    ELSE [f EXCEPT !.pc = "poll",
                   !.inflight = Append(@, PollCall(f.request_id, f.since,
                                                   Wait(c, remaining), t)),
                   !.pollLog = Append(@, f.since)]

\* Variant: the cursor is kept on the client object, shared by its searches
Store_SharedCursor(sess, s, f) ==
    [t \in DOMAIN sess |-> IF t = s THEN f ELSE [sess[t] EXCEPT !.since = f.since]]

\* The locals of a search() call live in the frame of its own generator
Store(sess, s, f) == [sess EXCEPT ![s] = f]

\* Variant: the generator closes the transport when it ends
TransportAfter_CloseOnExit(tr, f) ==
    IF f.pc \in {"returned", "raised", "closed"} THEN [tr EXCEPT !.open = FALSE] ELSE tr

\* search() has no finally block and never touches the transport's connection
TransportAfter(tr, f) == tr

\* One step of the generator of search s, leaving it in frame f
Step(s, f) ==
    /\ session' = Store(session, s, f)
    /\ transport' = TransportAfter(transport, f)
    /\ ticked' = FALSE
    /\ UNCHANGED <<now, config, booking>>

\* First pull of the generator: build the payload, check it, call submit
Start(s) ==
    /\ session[s].pc = "created"
    /\ transport.open
    /\ LET payload == to_dict(session[s].crit[1]) IN
       Step(s, IF PayloadRejected(payload)
               THEN [session[s] EXCEPT !.pc = "raised", !.err = "ValueError"]
               ELSE [session[s] EXCEPT !.pc = "submit", !.submitted = <<payload>>,
                                       !.inflight = Append(@, SubmitCall(now))])

\* availability_submit returns: no request id ends the search, else the
\* deadline is set and the loop is entered
SubmitReturn(s, resp) ==
    /\ session[s].pc = "submit"
    /\ LET request_id == resp.request_id
           f == [session[s] EXCEPT !.inflight = Tail(@), !.submitResp = <<resp>>,
                                   !.submitRetAt = now] IN
       Step(s, IF NoRequestId(request_id)
               THEN [f EXCEPT !.pc = "returned"]
               ELSE LoopHead([f EXCEPT !.request_id = request_id.v, !.since = 0,
                                       !.deadline = Deadline(config, now)],
                             config, now))

\* availability_submit raises TransportException
SubmitFail(s) ==
    /\ session[s].pc = "submit"
    /\ Step(s, OnTransportError([session[s] EXCEPT !.inflight = Tail(@), !.failed = TRUE]))

\* availability_poll returns: parse the chunk, move the cursor, yield
PollReturn(s, res) ==
    /\ session[s].pc = "poll"
    /\ LET chunk == from_dict(res) IN
       Step(s, [session[s] EXCEPT !.pc = "yield",
                                  !.inflight = Tail(@),
                                  !.received = Append(@, res),
                                  !.recvAt = now,
                                  !.chunk = <<chunk>>,
                                  !.since = NextSince(chunk, session[s].since),
                                  !.emitted = Emit(@, chunk)])

\* availability_poll raises TransportException
PollFail(s) ==
    /\ session[s].pc = "poll"
    /\ Step(s, OnTransportError([session[s] EXCEPT !.inflight = Tail(@), !.failed = TRUE]))

\* The consumer pulls again: resume after the yield
Pull(s) ==
    /\ session[s].pc = "yield"
    /\ LET f == session[s] IN
       /\ IsComplete(f.chunk[1]) \/ Len(f.pollLog) < f.cap
       /\ Step(s, IF IsComplete(f.chunk[1]) THEN [f EXCEPT !.pc = "returned"]
                  ELSE LoopHead(f, config, now))

\* Variant: the generator catches the cancellation and polls again
OnCancel_Swallow(f) ==
    [f EXCEPT !.abandoned = TRUE, !.pc = "poll",
              !.inflight = <<PollCall(f.request_id, f.since, 0, f.recvAt)>>,
              !.pollLog = Append(@, f.since)]

\* CancelledError is raised at the await of the call in flight and leaves the
\* generator: there is no try block; the call is abandoned
OnCancel(f) ==
    [f EXCEPT !.abandoned = TRUE, !.pc = "raised", !.err = "CancelledError",
              !.inflight = <<>>]

\* The consumer's task is cancelled while submit or poll is in flight
Cancel(s) ==
    /\ session[s].pc \in {"submit", "poll"}
    /\ Step(s, OnCancel(session[s]))

\* GeneratorExit is raised at the yield and ends the generator
OnClose(f) == [f EXCEPT !.abandoned = TRUE, !.pc = "closed"]

\* The consumer leaves its loop and closes the generator held at the yield
Abandon(s) ==
    /\ session[s].pc = "yield"
    /\ Step(s, OnClose(session[s]))

\* AvailabilityCriteria.make(...): raises ValueError or returns the criteria
Make(s, a) ==
    /\ session[s].pc = "nocriteria"
    /\ session[s].made = "none"
    /\ session' = [session EXCEPT ![s] =
           IF MakeAccepts(a) THEN NewSession("make", <<MakeResult(a)>>)
           ELSE [@ EXCEPT !.made = "make_raised", !.err = "ValueError"]]
    /\ ticked' = FALSE
    /\ UNCHANGED <<now, config, transport, booking>>

\* AvailabilityCriteria(...): the constructor called directly
Construct(s, a) ==
    /\ session[s].pc = "nocriteria"
    /\ session[s].made = "none"
    /\ session' = [session EXCEPT ![s] = NewSession("constructor", <<Criteria(a)>>)]
    /\ ticked' = FALSE
    /\ UNCHANGED <<now, config, transport, booking>>

\* ----------------------------------------------------------------- the clock
\* The tick at which the transport gives up a call
TimeoutAt(call, c) ==
    IF call.op = "submit" THEN call.at + SubmitTimeoutMs(c) * TicksPerMs
    ELSE call.at + PollTimeoutMs(c, call.wait) * TicksPerMs

InFlight == UNION { {f.inflight[i] : i \in 1..Len(f.inflight)} :
                    f \in {session[s] : s \in DOMAIN session} }

Waiting(f) == f.pc \in {"submit", "poll", "yield"}

TickSteps ==
    {1, MsPerSecond * TicksPerMs - 1} \cup { TimeoutAt(call, config) - now : call \in InFlight }

\* Time passes while a call is in flight or the consumer holds a chunk; a
\* call in flight does not outlive its transport timeout
Tick(d) ==
    /\ ~ticked
    /\ d > 0
    /\ \E s \in DOMAIN session : Waiting(session[s])
    /\ \A call \in InFlight : now + d <= TimeoutAt(call, config)
    /\ now' = now + d
    /\ ticked' = TRUE
    /\ UNCHANGED <<config, session, transport, booking>>

\* CarHireClient.aclose(), or leaving `async with CarHireClient(...)`: the
\* httpx client of the REST transport is closed.  The caller closes the
\* client when no search is under way; a search on a closed client is not
\* followed.
Close ==
    /\ \A s \in DOMAIN session : ~Waiting(session[s])
    /\ ~config.grpc
    /\ transport' = [transport EXCEPT !.open = FALSE, !.aclosed = TRUE]
    /\ UNCHANGED <<now, ticked, config, session, booking>>

\* -------------------------------------------------------------- specification
AnyStart == \E s \in DOMAIN session : Start(s)
AnySubmitReturn == \E s \in DOMAIN session : \E resp \in SubmitResponses : SubmitReturn(s, resp)
AnySubmitFail == \E s \in DOMAIN session : SubmitFail(s)
AnyPollReturn == \E s \in DOMAIN session : \E res \in PollResponses : PollReturn(s, res)
AnyPollFail == \E s \in DOMAIN session : PollFail(s)
AnyPull == \E s \in DOMAIN session : Pull(s)
AnyMake == \E s \in DOMAIN session : \E a \in CriteriaArgs : Make(s, a)
AnyConstruct == \E s \in DOMAIN session : \E a \in CriteriaArgs : Construct(s, a)
AnyTick == \E d \in TickSteps : Tick(d)
\* The clock followed in steps of just under a second
CoarseTick == Tick(MsPerSecond * TicksPerMs - 1)
AnyCancel == \E s \in DOMAIN session : Cancel(s)
AnyAbandon == \E s \in DOMAIN session : Abandon(s)

\* The transport after RestTransport.__init__: its httpx client is open
NewTransport ==
    [ open    |-> TRUE,     \* the httpx client has not been closed
      aclosed |-> FALSE ]   \* the caller closed the client

\* No booking operation has been called
NoBooking ==
    [ op    |-> "none",     \* the method of BookingClient that was called
      pc    |-> "idle",     \* idle, call (awaiting the transport), returned, raised
      err   |-> "none",     \* the exception the caller got
      args  |-> <<>>,       \* the arguments of the call
      calls |-> <<>> ]      \* the calls made on the transport

InitWith(ids, frames) ==
    /\ now = 0
    /\ ticked = FALSE
    /\ config \in Configs
    /\ session \in [ids -> frames]
    /\ transport = NewTransport
    /\ booking = NoBooking

\* One search, started with criteria that already exist
Init == InitWith({1}, {NewSession("given", <<c>>) : c \in SearchCriteria})

Next ==
    \/ AnyStart
    \/ AnySubmitReturn
    \/ AnySubmitFail
    \/ AnyPollReturn
    \/ AnyPollFail
    \/ AnyPull
    \/ AnyTick

Spec == Init /\ [][Next]_vars

\* One search whose consumer may cancel or close it, on a client that the
\* caller may close
NextClient ==
    \/ AnyStart
    \/ AnySubmitReturn
    \/ AnySubmitFail
    \/ AnyPollReturn
    \/ AnyPollFail
    \/ AnyPull
    \/ AnyTick
    \/ AnyCancel
    \/ AnyAbandon
    \/ Close

SpecClient == Init /\ [][NextClient]_vars

\* Two searches on one client, run concurrently by the event loop: a step of
\* either generator may follow any step of the other.  The server gives
\* each submit a request id of its own; each poll is answered with a chunk
\* that moves the cursor or with the final one.
ConcSubmitResponse(s) == [request_id |-> JStr(IF s = 1 THEN "r1" ELSE "r2")]

ConcPollResponses ==
    { res \in PollResponses : res.cursor \in {JInt(5), JInt(9)} }

ConcSubmitReturn ==
    \E s \in DOMAIN session : SubmitReturn(s, ConcSubmitResponse(s))
ConcPollReturn ==
    \E s \in DOMAIN session : \E res \in ConcPollResponses : PollReturn(s, res)

InitConc ==
    /\ InitWith({1, 2}, {[NewSession("given", <<c>>) EXCEPT !.cap = ConcPolls] :
                            c \in SearchCriteria})
    /\ config.availabilitySlaMs > config.longPollWaitMs

NextConc ==
    \/ AnyStart
    \/ ConcSubmitReturn
    \/ AnySubmitFail
    \/ ConcPollReturn
    \/ AnyPollFail
    \/ AnyPull
    \/ CoarseTick

SpecConc == InitConc /\ [][NextConc]_vars

\* One search whose consumer keeps pulling, on a transport whose every call
\* ends and with a clock that advances: a poll returns after time has passed
SlowPollReturn ==
    \E s \in DOMAIN session : \E res \in PollResponses :
        /\ session[s].inflight # <<>>
        /\ now > session[s].inflight[1].at
        /\ PollReturn(s, res)

InitLive ==
    InitWith({1}, {[NewSession("given", <<c>>) EXCEPT !.cap = LivePolls] :
                      c \in SearchCriteria})

NextLive ==
    \/ AnyStart
    \/ AnySubmitReturn
    \/ AnySubmitFail
    \/ SlowPollReturn
    \/ AnyPollFail
    \/ AnyPull
    \/ CoarseTick

\* The consumer pulls, each transport call returns or raises, time passes
Fairness ==
    /\ WF_vars(AnyStart)
    /\ WF_vars(AnyPull)
    /\ WF_vars(AnySubmitReturn \/ AnySubmitFail)
    /\ WF_vars(SlowPollReturn \/ AnyPollFail)
    /\ WF_vars(CoarseTick)

SpecLive == InitLive /\ [][NextLive]_vars /\ Fairness

\* One search, from the making of its criteria to its first poll
InitCriteria == InitWith({1}, {NewSession("none", <<>>)})

NextCriteria ==
    \/ AnyMake
    \/ AnyConstruct
    \/ AnyStart
    \/ AnySubmitReturn
    \/ AnySubmitFail
    \/ AnyTick

SpecCriteria == InitCriteria /\ [][NextCriteria]_vars

\* ------------------------------------------------- building a Configuration
\* No Config object exists yet
NoConfig == Config("none", FALSE, [RestData EXCEPT !.baseUrl = "", !.token = ""])

\* A factory raised ValueError: no object was built
RejectedConfig == [NoConfig EXCEPT !.how = "rejected"]

TimeoutChoices == {<<>>, <<MinTimeoutMs - 1>>, <<MinTimeoutMs>>}

\* The data dicts a caller passes: complete for REST or for gRPC, or with a
\* required string blank, each with every choice of the three timing keys
ConfigDataChoices ==
    { [base EXCEPT !.callTimeoutMs = ct, !.availabilitySlaMs = sla, !.longPollWaitMs = lp] :
        base \in { RestData, GrpcData, [RestData EXCEPT !.baseUrl = " "],
                   [RestData EXCEPT !.token = ""], [GrpcData EXCEPT !.clientKey = ""] },
        ct \in TimeoutChoices, sla \in TimeoutChoices, lp \in TimeoutChoices }

CorrelationIds == {"c1", "c2"}

\* Config.for_rest(data)
ForRest(data) ==
    /\ config.how = "none"
    /\ config' = IF ForRestAccepts(data) THEN Config("for_rest", FALSE, data)
                 ELSE RejectedConfig
    /\ UNCHANGED <<now, ticked, session, transport, booking>>

\* Config.for_grpc(data)
ForGrpc(data) ==
    /\ config.how = "none"
    /\ config' = IF ForGrpcAccepts(data) THEN Config("for_grpc", TRUE, data)
                 ELSE RejectedConfig
    /\ UNCHANGED <<now, ticked, session, transport, booking>>

\* Config(grpc, data): the constructor called directly
NewConfig(grpc, data) ==
    /\ config.how = "none"
    /\ config' = Config("constructor", grpc, data)
    /\ UNCHANGED <<now, ticked, session, transport, booking>>

\* config.with_correlation_id(correlation_id) on a Config that exists
DeriveConfig(correlation_id) ==
    /\ config.how \notin {"none", "rejected"}
    /\ config' = WithCorrelationId(config, correlation_id)
    /\ UNCHANGED <<now, ticked, session, transport, booking>>

AnyForRest == \E data \in ConfigDataChoices : ForRest(data)
AnyForGrpc == \E data \in ConfigDataChoices : ForGrpc(data)
AnyNewConfig == \E grpc \in BOOLEAN : \E data \in ConfigDataChoices : NewConfig(grpc, data)
AnyDeriveConfig == \E correlation_id \in CorrelationIds : DeriveConfig(correlation_id)

\* No client yet: only the Configuration is being built
InitConfig ==
    /\ now = 0
    /\ ticked = FALSE
    /\ config = NoConfig
    /\ session = <<>>
    /\ transport = NewTransport
    /\ booking = NoBooking

NextConfig ==
    \/ AnyForRest
    \/ AnyForGrpc
    \/ AnyNewConfig
    \/ AnyDeriveConfig

SpecConfig == InitConfig /\ [][NextConfig]_vars

\* ------------------------------------------------------- the booking client
\* The arguments of a booking method, as JSON values: the agreement_ref of
\* create is the one of dto.to_dict(), which is the dict the DTO was built on
BookingArgs(supplier_booking_ref, agreement_ref, source_id, idempotency_key) ==
    [ supplier_booking_ref |-> supplier_booking_ref, agreement_ref |-> agreement_ref,
      source_id |-> source_id, idempotency_key |-> idempotency_key ]

PayloadRefChoices == {Missing(""), Null(""), JStr(""), JStr("AGR-001")}
AgreementRefChoices == {Null(""), JStr(""), JStr("AGR-001")}
BookingRefChoices == {Null(""), JStr(""), JStr("BKG-1")}
SourceIdChoices == {Null(""), JStr("SRC-1")}
KeyChoices == {Null(""), JStr(""), JStr("idem-1")}

\* Variant: only a missing or null agreement_ref is refused
BookingRejected_NoneOnly(agreement_ref) == IsNone(agreement_ref)

\* `if not payload.get("agreement_ref")`
BookingRejected(agreement_ref) == ~Truthy(agreement_ref)

\* A call on the transport: the method, its payload, the idempotency key
TransportCall(op, a, idempotency_key) ==
    [ op |-> op, supplier_booking_ref |-> a.supplier_booking_ref,
      agreement_ref |-> a.agreement_ref, source_id |-> a.source_id,
      idempotency_key |-> idempotency_key ]

\* Variant: the key is replaced by None on the way to the transport
CreateCall_DropKey(a) == TransportCall("booking_create", a, Null(""))

\* self.transport.booking_create(payload, idempotency_key)
CreateCall(a) == TransportCall("booking_create", a, a.idempotency_key)

\* BookingClient.create(dto, idempotency_key)
BookingCreate(a) ==
    /\ booking.pc = "idle"
    /\ transport.open
    /\ booking' = IF BookingRejected(a.agreement_ref)
                  THEN [booking EXCEPT !.op = "create", !.args = <<a>>, !.pc = "raised",
                                       !.err = "ValueError"]
                  ELSE [booking EXCEPT !.op = "create", !.args = <<a>>, !.pc = "call",
                                       !.calls = Append(@, CreateCall(a))]
    /\ UNCHANGED <<now, ticked, config, session, transport>>

\* BookingClient.modify(supplier_booking_ref, fields, agreement_ref, source_id):
\* source_id is not passed on
BookingModify(a) ==
    /\ booking.pc = "idle"
    /\ transport.open
    /\ booking' = [booking EXCEPT !.op = "modify", !.args = <<a>>, !.pc = "call",
                       !.calls = Append(@, TransportCall("booking_modify",
                                               [a EXCEPT !.source_id = Missing("")],
                                               Missing("")))]
    /\ UNCHANGED <<now, ticked, config, session, transport>>

\* BookingClient.cancel(supplier_booking_ref, agreement_ref, source_id):
\* source_id is not passed on
BookingCancel(a) ==
    /\ booking.pc = "idle"
    /\ transport.open
    /\ booking' = [booking EXCEPT !.op = "cancel", !.args = <<a>>, !.pc = "call",
                       !.calls = Append(@, TransportCall("booking_cancel",
                                               [a EXCEPT !.source_id = Missing("")],
                                               Missing("")))]
    /\ UNCHANGED <<now, ticked, config, session, transport>>

\* BookingClient.check(supplier_booking_ref, agreement_ref, source_id)
BookingCheck(a) ==
    /\ booking.pc = "idle"
    /\ transport.open
    /\ booking' = [booking EXCEPT !.op = "check", !.args = <<a>>, !.pc = "call",
                       !.calls = Append(@, TransportCall("booking_check", a, Missing("")))]
    /\ UNCHANGED <<now, ticked, config, session, transport>>

\* The transport call of the booking method returns the response
BookingReturn ==
    /\ booking.pc = "call"
    /\ booking' = [booking EXCEPT !.pc = "returned"]
    /\ UNCHANGED <<now, ticked, config, session, transport>>

\* The transport call raises TransportException, which leaves the method
BookingFail ==
    /\ booking.pc = "call"
    /\ booking' = [booking EXCEPT !.pc = "raised", !.err = "TransportException"]
    /\ UNCHANGED <<now, ticked, config, session, transport>>

AnyBookingCreate ==
    \E agreement_ref \in PayloadRefChoices : \E idempotency_key \in KeyChoices :
        BookingCreate(BookingArgs(Missing(""), agreement_ref, Missing(""), idempotency_key))
AnyBookingModify ==
    \E ref \in BookingRefChoices : \E agreement_ref \in AgreementRefChoices :
        \E source_id \in SourceIdChoices :
            BookingModify(BookingArgs(ref, agreement_ref, source_id, Missing("")))
AnyBookingCancel ==
    \E ref \in BookingRefChoices : \E agreement_ref \in AgreementRefChoices :
        \E source_id \in SourceIdChoices :
            BookingCancel(BookingArgs(ref, agreement_ref, source_id, Missing("")))
AnyBookingCheck ==
    \E ref \in BookingRefChoices : \E agreement_ref \in AgreementRefChoices :
        \E source_id \in SourceIdChoices :
            BookingCheck(BookingArgs(ref, agreement_ref, source_id, Missing("")))

\* A client on which one booking method is called; no search
InitBooking ==
    /\ now = 0
    /\ ticked = FALSE
    /\ config \in Configs
    /\ session = <<>>
    /\ transport = NewTransport
    /\ booking = NoBooking

NextBooking ==
    \/ AnyBookingCreate
    \/ AnyBookingModify
    \/ AnyBookingCancel
    \/ AnyBookingCheck
    \/ BookingReturn
    \/ BookingFail

SpecBooking == InitBooking /\ [][NextBooking]_vars

\* ------------------------------------------------------------------ properties
Frames == {session[s] : s \in DOMAIN session}
PollsInFlight(f) == {f.inflight[i] : i \in {j \in 1..Len(f.inflight) : f.inflight[j].op = "poll"}}
ReportsComplete(status) == status.t = "str" /\ status.v = "COMPLETE"
NoComplete(f) == \A i \in 1..Len(f.received) : ~ReportsComplete(f.received[i].status)
Ended(f) == f.pc \in {"returned", "raised", "closed"}

\* C1: a search emits at most one chunk with status COMPLETE, that chunk is
\* the last one emitted, and once it is received no further poll is issued.
C1_CompleteIsLast ==
    \A f \in Frames :
        /\ \A i \in 1..Len(f.emitted) :
              ReportsComplete(f.emitted[i].status) => i = Len(f.emitted)
        /\ \A i \in 1..Len(f.received) :
              ReportsComplete(f.received[i].status) =>
                  /\ i = Len(f.received)
                  /\ Len(f.pollLog) = i
                  /\ f.inflight = <<>>
                  /\ f.pc \in {"yield", "returned"}

C1_Witness ==
    \E f \in Frames :
        /\ f.pc = "returned"
        /\ Len(f.emitted) = 2
        /\ ~ReportsComplete(f.emitted[1].status)
        /\ ReportsComplete(f.emitted[2].status)
        /\ Len(f.pollLog) = 2

\* C2: within one search the cursor starts at 0 and never decreases: the
\* since_cursor of each poll is >= that of the poll before it, and the cursors
\* of consecutive emitted chunks are non-decreasing.
C2_CursorNeverDecreases ==
    \A f \in Frames :
        /\ f.pollLog # <<>> => f.pollLog[1] = 0
        /\ \A i \in 1..(Len(f.pollLog) - 1) : f.pollLog[i] <= f.pollLog[i + 1]
        /\ \A i \in 1..(Len(f.emitted) - 1) :
              (f.emitted[i].cursor.t = "int" /\ f.emitted[i + 1].cursor.t = "int")
                  => f.emitted[i].cursor.v <= f.emitted[i + 1].cursor.v

\* C3: a submit response with no request identifier (missing, null or empty)
\* ends the search normally: no chunk, no poll, no error.
C3_NoRequestIdEndsEmpty ==
    \A f \in Frames :
        (f.submitResp # <<>> /\ f.submitResp[1].request_id \in {Missing(""), Null(""), JStr("")})
            => /\ f.pc = "returned"
               /\ f.err = "none"
               /\ f.emitted = <<>>
               /\ f.pollLog = <<>>
               /\ f.inflight = <<>>

C3_Witness ==
    \E f \in Frames :
        /\ f.submitResp = << [request_id |-> JStr("")] >>
        /\ f.pc = "returned"
        /\ f.pollLog = <<>>

\* C4: the wait of every poll is at most longPollWaitMs and at most the time
\* that remained until the deadline when the poll was issued.
C4_WaitWithinBudget ==
    \A f \in Frames : \A call \in PollsInFlight(f) :
        /\ call.wait >= 0
        /\ call.wait <= config.longPollWaitMs
        /\ call.wait * TicksPerMs <= f.deadline - call.at

C4_Witness ==
    \E f \in Frames : \E call \in PollsInFlight(f) :
        /\ call.wait < config.longPollWaitMs
        /\ call.wait * TicksPerMs < f.deadline - call.at
        /\ call.at > f.deadline - MsPerSecond * TicksPerMs

\* C5: when the deadline passes before a COMPLETE chunk arrives the search
\* ends without an error, every response received (also one that came back
\* after the deadline) has been emitted, and no poll starts once no time remains.
C5_DeadlineEndsSilently ==
    \A f \in Frames :
        /\ Len(f.emitted) = Len(f.received)
        /\ \A i \in 1..Len(f.emitted) : f.emitted[i].raw = f.received[i]
        /\ \A call \in PollsInFlight(f) : call.at < f.deadline
        /\ (Ended(f) /\ f.pollLog # <<>> /\ ~f.failed /\ NoComplete(f))
              => /\ f.pc = "returned"
                 /\ f.err = "none"
                 /\ now >= f.deadline

C5_Witness ==
    \E f \in Frames :
        /\ f.pc = "returned"
        /\ f.emitted # <<>>
        /\ NoComplete(f)
        /\ f.recvAt > f.deadline
        /\ Len(f.emitted) = Len(f.pollLog)

\* C6 as stated: no poll of a search is in flight later than its deadline,
\* the poll taking as long as the transport timeout allows.
C6_NeverInFlightPastDeadline ==
    \A f \in Frames : \A call \in PollsInFlight(f) : now <= f.deadline

\* C6 as amended: a poll is issued before the deadline and its wait ends by
\* the deadline, but the poll may stay in flight past the deadline, up to the
\* request timeout of the transport.
C6_WaitEndsByDeadline ==
    \A f \in Frames : \A call \in PollsInFlight(f) :
        /\ call.at < f.deadline
        /\ call.at + call.wait * TicksPerMs <= f.deadline
        /\ now <= call.at
                  + (Max(call.wait, config.callTimeoutMs) + TimeoutSlackS * MsPerSecond)
                    * TicksPerMs

C6_Witness ==
    \E f \in Frames : \E call \in PollsInFlight(f) :
        /\ now > f.deadline
        /\ now = TimeoutAt(call, config)
        /\ call.at + call.wait * TicksPerMs <= f.deadline

\* C7: every criteria object that exists satisfies return_at > pickup_at,
\* 18 <= driver_age <= 100 and has an agreement reference, and a search on
\* criteria violating any of these makes no transport call.
CriteriaValid(c) ==
    /\ c.return_at > c.pickup_at
    /\ 18 <= c.driver_age /\ c.driver_age <= 100
    /\ Len(c.agreement_refs) >= 1

C7_InvalidCriteriaNeverExist ==
    \A f \in Frames :
        f.crit # <<>> =>
            /\ CriteriaValid(f.crit[1])
            /\ ~CriteriaValid(f.crit[1]) => (f.submitted = <<>> /\ f.inflight = <<>>)

\* C8: a search whose merged payload (extras over the criteria's own fields)
\* has no agreement references raises a validation error before any transport
\* call: no submit, no poll, no chunk.
MergedRefs(c) == IF c.extras.has THEN c.extras.agreement_refs ELSE JList(c.agreement_refs)
NoRefs(j) == j.t \in {"missing", "null"} \/ j.v = <<>>

C8_NoRefsRejectedBeforeTransport ==
    \A f \in Frames :
        (f.crit # <<>> /\ f.pc # "created" /\ NoRefs(MergedRefs(f.crit[1])))
            => /\ f.pc = "raised"
               /\ f.err = "ValueError"
               /\ f.submitted = <<>>
               /\ f.inflight = <<>>
               /\ f.pollLog = <<>>
               /\ f.emitted = <<>>

C8_Witness ==
    \E f \in Frames :
        /\ f.crit # <<>>
        /\ f.crit[1].agreement_refs # <<>>
        /\ f.crit[1].extras = ExtrasRefs(JList(<<>>))
        /\ f.pc = "raised"
        /\ f.err = "ValueError"

\* C9: once the transport has raised, the caller has the transport error and
\* the search is over: no further transport call, no further chunk, and what
\* was emitted before stays as it was.
C9_TransportErrorEndsSearch ==
    [][\A s \in DOMAIN session :
          /\ session'[s].failed =>
                /\ session'[s].pc = "raised"
                /\ session'[s].err = "TransportException"
                /\ session'[s].inflight = <<>>
                /\ session'[s].emitted = session[s].emitted
                /\ session'[s].pollLog = session[s].pollLog
          /\ session[s].failed => session'[s] = session[s]]_vars

C9_Witness ==
    \E f \in Frames :
        /\ f.failed
        /\ f.pc = "raised"
        /\ Len(f.emitted) = 2
        /\ Len(f.pollLog) = 3
        /\ f.since = f.emitted[2].cursor.v

\* C10: transport calls of a search are strictly sequential and emission
\* preserves receipt order: at most one call is in flight, a poll is issued
\* only after the submit and the previous poll returned, and the chunks emitted
\* are the poll responses received, each once, in order.
C10_SequentialInOrder ==
    \A f \in Frames :
        /\ Len(f.inflight) <= 1
        /\ f.pollLog # <<>> => f.submitResp # <<>>
        /\ Len(f.pollLog) = Len(f.received) + Cardinality(PollsInFlight(f))
                            + (IF f.failed /\ f.pollLog # <<>> THEN 1 ELSE 0)
        /\ f.pc = "submit" => f.pollLog = <<>>
        /\ Len(f.emitted) = Len(f.received)
        /\ \A i \in 1..Len(f.emitted) : f.emitted[i].raw = f.received[i]

C10_Witness ==
    \E f \in Frames :
        /\ Len(f.emitted) = 3
        /\ f.emitted[1].raw # f.emitted[2].raw
        /\ f.emitted[2].raw # f.emitted[3].raw
        /\ f.emitted[3].items.v = <<>>

\* C11: the deadline of a search is the time at which submit returned plus
\* availabilitySlaMs: time spent inside the submit call does not shorten it,
\* and no iteration of the poll loop recomputes or extends it.
C11_DeadlineFixedAtSubmitReturn ==
    \A f \in Frames :
        f.pollLog # <<>> =>
            /\ f.deadline = f.submitRetAt + config.availabilitySlaMs * TicksPerMs
            /\ \A call \in PollsInFlight(f) : call.at >= f.submitRetAt

C11_Witness ==
    \E f \in Frames :
        /\ f.submitRetAt > 0
        /\ Len(f.pollLog) >= 2
        /\ f.recvAt > f.submitRetAt
        /\ \E call \in PollsInFlight(f) : call.at > f.submitRetAt
        /\ f.deadline = f.submitRetAt + config.availabilitySlaMs * TicksPerMs

\* C12: the first poll of a search is issued with since_seq 0; after a chunk
\* that carries a cursor the next poll is issued with exactly that cursor;
\* after a chunk without a cursor the next poll repeats the since_seq of the
\* poll before it.
C12_CursorTracking ==
    \A f \in Frames :
        /\ f.pollLog # <<>> => f.pollLog[1] = 0
        /\ \A i \in 1..(Len(f.pollLog) - 1) :
              LET cursor == f.received[i].cursor IN
              f.pollLog[i + 1] = IF cursor.t \in {"missing", "null"} THEN f.pollLog[i]
                                 ELSE cursor.v
        /\ \A call \in PollsInFlight(f) : call.since = f.pollLog[Len(f.pollLog)]

C12_Witness ==
    \E f \in Frames :
        /\ Len(f.pollLog) = 3
        /\ f.received[1].cursor = JInt(5)
        /\ f.received[2].cursor.t = "missing"
        /\ f.pollLog = <<0, 5, 5>>
        /\ \E call \in PollsInFlight(f) : call.since = 5

\* C13: every emitted chunk has status PARTIAL or COMPLETE: a response whose
\* status is another value, or is missing, gives a chunk with status PARTIAL,
\* and a response without items gives a chunk with an empty item list.
C13_StatusPartialOrComplete ==
    \A f \in Frames :
        \A i \in 1..Len(f.emitted) :
            /\ f.emitted[i].status \in {JStr("PARTIAL"), JStr("COMPLETE")}
            /\ ~ReportsComplete(f.received[i].status) => f.emitted[i].status = JStr("PARTIAL")
            /\ f.received[i].items.t = "missing" => f.emitted[i].items = JList(<<>>)

\* C14: every Configuration that was constructed, by for_rest, for_grpc, the
\* constructor or with_correlation_id, has callTimeoutMs, availabilitySlaMs
\* and longPollWaitMs of at least 1000 ms each.
C14_TimeoutsAtLeastFloor ==
    config.how \in {"for_rest", "for_grpc", "constructor", "with_correlation_id"} =>
        /\ config.callTimeoutMs >= MinTimeoutMs
        /\ config.availabilitySlaMs >= MinTimeoutMs
        /\ config.longPollWaitMs >= MinTimeoutMs

\* C15: create with a payload whose agreement_ref is missing, null or empty
\* raises ValueError without a transport call; with a non-empty agreement_ref
\* it makes exactly one booking_create call, also when that call fails, and
\* the call carries the idempotency key as it was given.
C15_CreateValidatesThenCallsOnce ==
    booking.op = "create" =>
        LET a == booking.args[1] IN
        IF a.agreement_ref \in {Missing(""), Null(""), JStr("")}
        THEN /\ booking.pc = "raised"
             /\ booking.err = "ValueError"
             /\ booking.calls = <<>>
        ELSE /\ Len(booking.calls) = 1
             /\ booking.calls[1].op = "booking_create"
             /\ booking.calls[1].agreement_ref = a.agreement_ref
             /\ booking.calls[1].idempotency_key = a.idempotency_key

C15_Witness ==
    /\ booking.op = "create"
    /\ booking.pc = "raised"
    /\ booking.err = "TransportException"
    /\ booking.args[1].idempotency_key = JStr("idem-1")
    /\ Len(booking.calls) = 1
    /\ booking.calls[1].idempotency_key = JStr("idem-1")

\* C16: modify, cancel and check with a booking ref or an agreement ref that
\* is missing or empty never reach the transport.
C16_RefsRequiredBeforeTransport ==
    booking.op \in {"modify", "cancel", "check"} =>
        LET a == booking.args[1] IN
        (~Truthy(a.supplier_booking_ref) \/ ~Truthy(a.agreement_ref)) => booking.calls = <<>>

\* C17: concurrent searches on one client are independent under every
\* interleaving: each poll of a search carries the request id its own submit
\* returned and its own cursor, which starts at 0, each search has the
\* deadline of its own submit, and a step of one search (a chunk, a cursor
\* update, COMPLETE, an error) changes nothing of any other search.
C17_ConcurrentSearchesIndependent ==
    [][\A s \in DOMAIN session :
          LET f == session'[s] IN
          /\ f.pollLog # <<>> =>
                /\ f.pollLog[1] = 0
                /\ f.deadline = f.submitRetAt + config.availabilitySlaMs * TicksPerMs
          /\ \A call \in PollsInFlight(f) :
                /\ call.request_id = f.submitResp[1].request_id.v
                /\ call.since = f.pollLog[Len(f.pollLog)]
                /\ f.received # <<>> /\ f.received[Len(f.received)].cursor.t = "int" =>
                      call.since = f.received[Len(f.received)].cursor.v
          /\ \A t \in DOMAIN session \ {s} :
                session'[s] # session[s] => session'[t] = session[t]]_vars

C17_Witness ==
    \E s \in DOMAIN session : \E t \in DOMAIN session :
        /\ session[s].pc = "raised"
        /\ session[s].failed
        /\ session[s].request_id = "r1"
        /\ session[s].since = 0
        /\ Len(session[s].pollLog) = 1
        /\ session[t].pc = "poll"
        /\ session[t].request_id = "r2"
        /\ session[t].since = 5
        /\ session[t].deadline # session[s].deadline
        /\ session[t].recvAt > session[s].recvAt

\* C18: once the consumer has closed the generator at a yield, or was
\* cancelled while submit or poll was in flight, the search emits no further
\* chunk, issues no further poll and has no call in flight.
C18_AbandonedSearchIsSilent ==
    [][\A s \in DOMAIN session :
          session'[s].abandoned =>
              /\ session'[s].emitted = session[s].emitted
              /\ session'[s].pollLog = session[s].pollLog
              /\ session'[s].inflight = <<>>
              /\ Ended(session'[s])]_vars

C18_Witness ==
    \E f \in Frames :
        /\ f.abandoned
        /\ f.err = "CancelledError"
        /\ Len(f.pollLog) = 2
        /\ Len(f.emitted) = 1
        /\ transport.aclosed

\* C19 as claimed: whenever a search has ended, on whatever exit path, the
\* connection of the transport is closed.
C19_ClosedOnEveryExit ==
    \A f \in Frames : Ended(f) => ~transport.open

\* C19: no exit path of a search closes the transport: the connection is
\* open exactly until the caller closes the client.
C19_OpenUntilClientClose ==
    transport.open = ~transport.aclosed

C19_Witness ==
    \E f \in Frames :
        /\ f.pc = "raised"
        /\ f.err = "TransportException"
        /\ f.emitted # <<>>
        /\ transport.open
        /\ ~transport.aclosed

\* C20: when the consumer keeps pulling, every transport call ends and the
\* clock advances, every search eventually ends, whatever the server
\* answers: a server that never reports COMPLETE is cut off by the deadline.
C20_EverySearchEnds ==
    <>(\A s \in DOMAIN session : Ended(session[s]))

C20_Witness ==
    \E f \in Frames :
        /\ f.pc = "returned"
        /\ ~f.failed
        /\ NoComplete(f)
        /\ Len(f.pollLog) > MaxPolls
        /\ Len(f.emitted) = Len(f.pollLog)
        /\ now >= f.deadline

====
